---- MODULE Spec2Model ----
(***************************************************************************)
(* Pixel-format catalog, texture capability interface and resource I/O of  *)
(* fyrox-graphics/src/gpu_texture.rs and fyrox-resource/src/io.rs.         *)
(*                                                                         *)
(* usize is modelled with UsizeBits bits.  An arithmetic overflow either   *)
(* panics (overflow checks on, the debug profile) or wraps (overflow       *)
(* checks off, the release profile); the build is chosen in Init.          *)
(***************************************************************************)
EXTENDS Integers, Sequences, FiniteSets

VARIABLES
    pixel_kind,       \* PixelKind argument of the catalog functions
    width,            \* usize arguments of the size functions
    height,
    depth,
    overflow_checks,  \* TRUE: overflow panics, FALSE: overflow wraps
    done,             \* the catalog functions that have been called
    alignment,        \* result of unpack_alignment()
    compressed,       \* result of is_compressed()
    elem,             \* result of element_kind()
    size_1d,          \* result of image_1d_size_bytes
    size_2d,          \* result of image_2d_size_bytes
    size_3d,          \* result of image_3d_size_bytes
    tex,              \* the state of one texture object behind dyn GpuTexture
    last_set,         \* history: the value last passed to each sampler setter
    set_data_ret,     \* history: the last set_data call and its result
    typed_ret,        \* the last call of a typed read-back helper and its outcome
    fut,              \* the future returned by ResourceIo::file_reader
    reader,           \* the Cursor the future resolved to
    consumed,         \* history: the bytes read from the reader before any seek
    seeked            \* history: whether the reader has been repositioned

catalog_vars == <<pixel_kind, width, height, depth, overflow_checks, done,
                  alignment, compressed, elem, size_1d, size_2d, size_3d>>

texture_vars == <<tex, last_set, set_data_ret>>

typed_vars == <<typed_ret>>

io_vars == <<fut, reader, consumed, seeked>>

vars == <<catalog_vars, texture_vars, typed_vars, io_vars>>

-----------------------------------------------------------------------------
(* Bounds *)

\* width of usize in the model
UsizeBits == 11

\* dimensions 0..MaxDim are enumerated, next to a few larger ones
MaxDim == 5

UsizeModulus == 2 ^ UsizeBits

usize_MAX == UsizeModulus - 1

Dims == (0 .. MaxDim) \cup {10, 16, usize_MAX - 3, usize_MAX - 2, usize_MAX}

-----------------------------------------------------------------------------
(* enum PixelKind *)

PixelKind ==
    {"R32F", "R32UI", "R16F", "D32F", "D16", "D24S8", "RGBA8", "SRGBA8", "RGB8",
     "SRGB8", "BGRA8", "BGR8", "RG8", "LA8", "LA16", "RG16", "R8", "L8", "L16",
     "R8UI", "R16", "RGB16", "RGBA16", "DXT1RGB", "DXT1RGBA", "DXT3RGBA",
     "DXT5RGBA", "RGB32F", "RGBA32F", "RGB16F", "RGBA16F", "R8RGTC", "RG8RGTC",
     "R11G11B10F", "RGB10A2"}

PixelElementKind == {"Float", "NormalizedUnsignedInteger", "Integer", "UnsignedInteger"}

\* Option<i32>
Some(a) == <<a>>

None == <<>>

unpack_alignment_swapped(self) ==
    CASE self \in {"RGBA16", "RGBA16F", "RGB16", "RGB16F", "RGBA32F", "RGB32F",
                   "RGBA8", "SRGBA8", "BGRA8", "RG16", "LA16", "D24S8", "D32F",
                   "R32F", "R32UI", "RGB10A2"} -> Some(4)
      [] self \in {"RG8", "LA8", "D16", "R16F", "L16", "R16"} -> Some(2)
      [] self \in {"R8", "L8", "R8UI", "SRGB8", "RGB8", "BGR8", "R11G11B10F",
                   "R8RGTC"} -> Some(1)
      [] self \in {"DXT1RGB", "DXT1RGBA", "DXT3RGBA", "DXT5RGBA", "RG8RGTC"} -> None

unpack_alignment(self) ==
    CASE self \in {"RGBA16", "RGBA16F", "RGB16", "RGB16F", "RGBA32F", "RGB32F",
                   "RGBA8", "SRGBA8", "BGRA8", "RG16", "LA16", "D24S8", "D32F",
                   "R32F", "R32UI", "RGB10A2"} -> Some(4)
      [] self \in {"RG8", "LA8", "D16", "R16F", "L16", "R16"} -> Some(2)
      [] self \in {"R8", "L8", "R8UI", "SRGB8", "RGB8", "BGR8", "R11G11B10F"} -> Some(1)
      [] self \in {"DXT1RGB", "DXT1RGBA", "DXT3RGBA", "DXT5RGBA", "R8RGTC",
                   "RG8RGTC"} -> None

is_compressed(self) ==
    CASE self \in {"DXT1RGB", "DXT1RGBA", "DXT3RGBA", "DXT5RGBA", "R8RGTC",
                   "RG8RGTC"} -> TRUE
      [] self \in {"RGBA16", "RGBA16F", "RGB16", "RGB16F", "RGBA8", "SRGBA8",
                   "RGB8", "SRGB8", "BGRA8", "BGR8", "RG16", "R16", "D24S8",
                   "D32F", "R32F", "R32UI", "RG8", "D16", "R16F", "R8", "R8UI",
                   "RGB32F", "RGBA32F", "R11G11B10F", "RGB10A2", "L8", "LA8",
                   "L16", "LA16"} -> FALSE

element_kind_packed_normalized(self) ==
    CASE self \in {"R32F", "R16F", "RGB32F", "RGBA32F", "RGBA16F", "RGB16F",
                   "D32F"} -> "Float"
      [] self \in {"D16", "D24S8", "RGBA8", "SRGBA8", "RGB8", "SRGB8", "BGRA8",
                   "BGR8", "RG8", "RG16", "R8", "R16", "RGB16", "RGBA16",
                   "DXT1RGB", "DXT1RGBA", "DXT3RGBA", "DXT5RGBA", "R8RGTC",
                   "RG8RGTC", "RGB10A2", "LA8", "L8", "LA16", "L16",
                   "R11G11B10F"} -> "NormalizedUnsignedInteger"
      [] self \in {"R8UI", "R32UI"} -> "UnsignedInteger"

element_kind(self) ==
    CASE self \in {"R32F", "R16F", "RGB32F", "RGBA32F", "RGBA16F", "RGB16F",
                   "D32F", "R11G11B10F"} -> "Float"
      [] self \in {"D16", "D24S8", "RGBA8", "SRGBA8", "RGB8", "SRGB8", "BGRA8",
                   "BGR8", "RG8", "RG16", "R8", "R16", "RGB16", "RGBA16",
                   "DXT1RGB", "DXT1RGBA", "DXT3RGBA", "DXT5RGBA", "R8RGTC",
                   "RG8RGTC", "RGB10A2", "LA8", "L8", "LA16",
                   "L16"} -> "NormalizedUnsignedInteger"
      [] self \in {"R8UI", "R32UI"} -> "UnsignedInteger"

-----------------------------------------------------------------------------
(* usize arithmetic *)

\* the outcome of a call that panicked
Panic == 0 - 1

usize_add(a, b) ==
    IF a = Panic \/ b = Panic THEN Panic
    ELSE IF a + b <= usize_MAX THEN a + b
    ELSE IF overflow_checks THEN Panic
    ELSE (a + b) % UsizeModulus

usize_mul(a, b) ==
    IF a = Panic \/ b = Panic THEN Panic
    ELSE IF a * b <= usize_MAX THEN a * b
    ELSE IF overflow_checks THEN Panic
    ELSE (a * b) % UsizeModulus

usize_div(a, b) ==
    IF a = Panic THEN Panic ELSE a \div b

ceil_div_4_floor(x) == usize_div(x, 4)

ceil_div_4(x) == usize_div(usize_add(x, 3), 4)

-----------------------------------------------------------------------------
(* size functions *)

image_3d_size_bytes_no_depth(kind, w, h, d) ==
    LET pixel_count == usize_mul(w, h) IN
    IF pixel_count = Panic THEN Panic
    ELSE CASE kind = "RGBA32F" -> usize_mul(16, pixel_count)
           [] kind = "RGB32F" -> usize_mul(12, pixel_count)
           [] kind \in {"RGBA16", "RGBA16F"} -> usize_mul(8, pixel_count)
           [] kind \in {"RGB16", "RGB16F"} -> usize_mul(6, pixel_count)
           [] kind \in {"RGBA8", "SRGBA8", "BGRA8", "RG16", "LA16", "D24S8",
                        "D32F", "R32F", "R32UI", "R11G11B10F", "RGB10A2"} ->
                  usize_mul(4, pixel_count)
           [] kind \in {"RGB8", "SRGB8", "BGR8"} -> usize_mul(3, pixel_count)
           [] kind \in {"RG8", "LA8", "R16", "L16", "D16", "R16F"} ->
                  usize_mul(2, pixel_count)
           [] kind \in {"R8", "L8", "R8UI"} -> pixel_count
           [] kind \in {"DXT1RGB", "DXT1RGBA", "R8RGTC"} ->
                  usize_mul(usize_mul(ceil_div_4(w), ceil_div_4(h)), 8)
           [] kind \in {"DXT3RGBA", "DXT5RGBA", "RG8RGTC"} ->
                  usize_mul(usize_mul(ceil_div_4(w), ceil_div_4(h)), 16)

image_3d_size_bytes(kind, w, h, d) ==
    LET pixel_count == usize_mul(usize_mul(w, h), d) IN
    IF pixel_count = Panic THEN Panic
    ELSE CASE kind = "RGBA32F" -> usize_mul(16, pixel_count)
           [] kind = "RGB32F" -> usize_mul(12, pixel_count)
           [] kind \in {"RGBA16", "RGBA16F"} -> usize_mul(8, pixel_count)
           [] kind \in {"RGB16", "RGB16F"} -> usize_mul(6, pixel_count)
           [] kind \in {"RGBA8", "SRGBA8", "BGRA8", "RG16", "LA16", "D24S8",
                        "D32F", "R32F", "R32UI", "R11G11B10F", "RGB10A2"} ->
                  usize_mul(4, pixel_count)
           [] kind \in {"RGB8", "SRGB8", "BGR8"} -> usize_mul(3, pixel_count)
           [] kind \in {"RG8", "LA8", "R16", "L16", "D16", "R16F"} ->
                  usize_mul(2, pixel_count)
           [] kind \in {"R8", "L8", "R8UI"} -> pixel_count
           [] kind \in {"DXT1RGB", "DXT1RGBA", "R8RGTC"} ->
                  LET block_size == 8 IN
                  usize_mul(usize_mul(usize_mul(ceil_div_4(w), ceil_div_4(h)),
                                      ceil_div_4(d)), block_size)
           [] kind \in {"DXT3RGBA", "DXT5RGBA", "RG8RGTC"} ->
                  LET block_size == 16 IN
                  usize_mul(usize_mul(usize_mul(ceil_div_4(w), ceil_div_4(h)),
                                      ceil_div_4(d)), block_size)

image_2d_size_bytes_la16(kind, w, h) ==
    LET pixel_count == usize_mul(w, h) IN
    IF pixel_count = Panic THEN Panic
    ELSE CASE kind = "RGBA32F" -> usize_mul(16, pixel_count)
           [] kind = "RGB32F" -> usize_mul(12, pixel_count)
           [] kind \in {"RGBA16", "RGBA16F"} -> usize_mul(8, pixel_count)
           [] kind \in {"RGB16", "RGB16F"} -> usize_mul(6, pixel_count)
           [] kind \in {"RGBA8", "SRGBA8", "BGRA8", "RG16", "D24S8",
                        "D32F", "R32F", "R32UI", "R11G11B10F", "RGB10A2"} ->
                  usize_mul(4, pixel_count)
           [] kind \in {"RGB8", "SRGB8", "BGR8"} -> usize_mul(3, pixel_count)
           [] kind \in {"RG8", "LA8", "LA16", "R16", "L16", "D16", "R16F"} ->
                  usize_mul(2, pixel_count)
           [] kind \in {"R8", "L8", "R8UI"} -> pixel_count
           [] kind \in {"DXT1RGB", "DXT1RGBA", "R8RGTC"} ->
                  usize_mul(usize_mul(ceil_div_4(w), ceil_div_4(h)), 8)
           [] kind \in {"DXT3RGBA", "DXT5RGBA", "RG8RGTC"} ->
                  usize_mul(usize_mul(ceil_div_4(w), ceil_div_4(h)), 16)

image_2d_size_bytes(kind, w, h) ==
    LET pixel_count == usize_mul(w, h) IN
    IF pixel_count = Panic THEN Panic
    ELSE CASE kind = "RGBA32F" -> usize_mul(16, pixel_count)
           [] kind = "RGB32F" -> usize_mul(12, pixel_count)
           [] kind \in {"RGBA16", "RGBA16F"} -> usize_mul(8, pixel_count)
           [] kind \in {"RGB16", "RGB16F"} -> usize_mul(6, pixel_count)
           [] kind \in {"RGBA8", "SRGBA8", "BGRA8", "RG16", "LA16", "D24S8",
                        "D32F", "R32F", "R32UI", "R11G11B10F", "RGB10A2"} ->
                  usize_mul(4, pixel_count)
           [] kind \in {"RGB8", "SRGB8", "BGR8"} -> usize_mul(3, pixel_count)
           [] kind \in {"RG8", "LA8", "R16", "L16", "D16", "R16F"} ->
                  usize_mul(2, pixel_count)
           [] kind \in {"R8", "L8", "R8UI"} -> pixel_count
           [] kind \in {"DXT1RGB", "DXT1RGBA", "R8RGTC"} ->
                  LET block_size == 8 IN
                  usize_mul(usize_mul(ceil_div_4(w), ceil_div_4(h)), block_size)
           [] kind \in {"DXT3RGBA", "DXT5RGBA", "RG8RGTC"} ->
                  LET block_size == 16 IN
                  usize_mul(usize_mul(ceil_div_4(w), ceil_div_4(h)), block_size)

image_1d_size_bytes_rgb8_padded(kind, length) ==
    CASE kind = "RGBA32F" -> usize_mul(16, length)
      [] kind = "RGB32F" -> usize_mul(12, length)
      [] kind \in {"RGBA16", "RGBA16F"} -> usize_mul(8, length)
      [] kind \in {"RGB16", "RGB16F"} -> usize_mul(6, length)
      [] kind \in {"RGBA8", "SRGBA8", "BGRA8", "RG16", "LA16", "D24S8", "D32F",
                   "R32F", "R32UI", "R11G11B10F", "RGB10A2", "RGB8", "SRGB8",
                   "BGR8"} -> usize_mul(4, length)
      [] kind \in {"RG8", "LA8", "L16", "R16", "D16", "R16F"} -> usize_mul(2, length)
      [] kind \in {"R8", "L8", "R8UI"} -> length
      [] kind \in {"DXT1RGB", "DXT1RGBA", "R8RGTC"} -> usize_mul(ceil_div_4(length), 8)
      [] kind \in {"DXT3RGBA", "DXT5RGBA", "RG8RGTC"} -> usize_mul(ceil_div_4(length), 16)

image_1d_size_bytes(kind, length) ==
    CASE kind = "RGBA32F" -> usize_mul(16, length)
      [] kind = "RGB32F" -> usize_mul(12, length)
      [] kind \in {"RGBA16", "RGBA16F"} -> usize_mul(8, length)
      [] kind \in {"RGB16", "RGB16F"} -> usize_mul(6, length)
      [] kind \in {"RGBA8", "SRGBA8", "BGRA8", "RG16", "LA16", "D24S8", "D32F",
                   "R32F", "R32UI", "R11G11B10F", "RGB10A2"} -> usize_mul(4, length)
      [] kind \in {"RGB8", "SRGB8", "BGR8"} -> usize_mul(3, length)
      [] kind \in {"RG8", "LA8", "L16", "R16", "D16", "R16F"} -> usize_mul(2, length)
      [] kind \in {"R8", "L8", "R8UI"} -> length
      [] kind \in {"DXT1RGB", "DXT1RGBA", "R8RGTC"} ->
             LET block_size == 8 IN usize_mul(ceil_div_4(length), block_size)
      [] kind \in {"DXT3RGBA", "DXT5RGBA", "RG8RGTC"} ->
             LET block_size == 16 IN usize_mul(ceil_div_4(length), block_size)

-----------------------------------------------------------------------------
\* the catalog functions at rest, while another component runs
InitCatalogIdle ==
    /\ pixel_kind = "R32F"
    /\ width = 0
    /\ height = 0
    /\ depth = 0
    /\ overflow_checks = FALSE
    /\ done = {}
    /\ alignment = None
    /\ compressed = FALSE
    /\ elem = "Float"
    /\ size_1d = 0
    /\ size_2d = 0
    /\ size_3d = 0

-----------------------------------------------------------------------------
(* trait GpuTexture: one texture object *)

MagnificationFilter == {"Nearest", "Linear"}

MinificationFilter ==
    {"Nearest", "NearestMipMapNearest", "NearestMipMapLinear", "Linear",
     "LinearMipMapNearest", "LinearMipMapLinear"}

WrapMode == {"Repeat", "ClampToEdge", "ClampToBorder", "MirroredRepeat", "MirrorClampToEdge"}

Coordinate == {"S", "T", "R"}

\* GpuTextureKind values: <<variant, dimensions...>>
Line(length) == <<"Line", length>>

Rectangle(w, h) == <<"Rectangle", w, h>>

Cube(w, h) == <<"Cube", w, h>>

Volume(w, h, d) == <<"Volume", w, h, d>>

\* inputs of the calls
MaxMipCount == 3

Anisotropies == {1, 16}

Colors == {"WHITE", "BLACK"}

TextureKinds == {Line(16), Rectangle(16, 16), Cube(4, 4), Volume(2, 2, 2)}

TexturePixelKinds == {"RGBA8", "LA16", "DXT1RGBA"}

DataLens == {32, 64, 1023, 1024, 1025}

Setters ==
    {"set_anisotropy", "set_minification_filter", "set_magnification_filter",
     "set_wrap_S", "set_wrap_T", "set_wrap_R", "set_border_color"}

NoCall == [called |-> FALSE, kind |-> Line(0), pixel_kind |-> "R8", mip_count |-> 0,
           data |-> None, backend_ok |-> TRUE, result |-> "Ok"]

InitTextureObject ==
    /\ tex = [min_filter |-> "Linear", mag_filter |-> "Linear",
              s_wrap_mode |-> "Repeat", t_wrap_mode |-> "Repeat",
              r_wrap_mode |-> "Repeat", border_color |-> "BLACK",
              anisotropy |-> 1, provisioned |-> FALSE,
              kind |-> Line(0), pixel_kind |-> "R8"]
    /\ last_set = [s \in Setters |-> None]
    /\ set_data_ret = NoCall

\* fn set_anisotropy(&mut self, anisotropy: f32)
set_anisotropy(anisotropy) ==
    /\ tex' = [tex EXCEPT !.anisotropy = anisotropy]
    /\ last_set' = [last_set EXCEPT !["set_anisotropy"] = Some(anisotropy)]
    /\ UNCHANGED set_data_ret

\* fn set_minification_filter(&mut self, min_filter: MinificationFilter)
set_minification_filter(min_filter) ==
    /\ tex' = [tex EXCEPT !.min_filter = min_filter]
    /\ last_set' = [last_set EXCEPT !["set_minification_filter"] = Some(min_filter)]
    /\ UNCHANGED set_data_ret

\* fn set_magnification_filter(&mut self, mag_filter: MagnificationFilter)
set_magnification_filter(mag_filter) ==
    /\ tex' = [tex EXCEPT !.mag_filter = mag_filter]
    /\ last_set' = [last_set EXCEPT !["set_magnification_filter"] = Some(mag_filter)]
    /\ UNCHANGED set_data_ret

wrap_stored_on_every_axis(t, coordinate, wrap) ==
    [t EXCEPT !.s_wrap_mode = wrap, !.t_wrap_mode = wrap, !.r_wrap_mode = wrap]

wrap_stored(t, coordinate, wrap) ==
    CASE coordinate = "S" -> [t EXCEPT !.s_wrap_mode = wrap]
      [] coordinate = "T" -> [t EXCEPT !.t_wrap_mode = wrap]
      [] coordinate = "R" -> [t EXCEPT !.r_wrap_mode = wrap]

\* fn set_wrap(&mut self, coordinate: Coordinate, wrap: WrapMode)
set_wrap(coordinate, wrap) ==
    /\ tex' = wrap_stored(tex, coordinate, wrap)
    /\ last_set' = [last_set EXCEPT !["set_wrap_" \o coordinate] = Some(wrap)]
    /\ UNCHANGED set_data_ret

\* fn set_border_color(&mut self, color: Color)
set_border_color(color) ==
    /\ tex' = [tex EXCEPT !.border_color = color]
    /\ last_set' = [last_set EXCEPT !["set_border_color"] = Some(color)]
    /\ UNCHANGED set_data_ret

\* the getters the trait declares
tex_kind == tex.kind

minification_filter == tex.min_filter

magnification_filter == tex.mag_filter

s_wrap_mode == tex.s_wrap_mode

t_wrap_mode == tex.t_wrap_mode

anisotropy == tex.anisotropy

tex_pixel_kind == tex.pixel_kind

\* what a caller can read through dyn GpuTexture: getter name -> value
Getters ==
    [kind |-> tex_kind,
     minification_filter |-> minification_filter,
     magnification_filter |-> magnification_filter,
     s_wrap_mode |-> s_wrap_mode,
     t_wrap_mode |-> t_wrap_mode,
     anisotropy |-> anisotropy,
     pixel_kind |-> tex_pixel_kind]

\* byte size of mip level 0 of a texture of the given shape and format
desired_byte_count(texture_kind, format) ==
    CASE texture_kind[1] = "Line" -> image_1d_size_bytes(format, texture_kind[2])
      [] texture_kind[1] = "Rectangle" ->
             image_2d_size_bytes(format, texture_kind[2], texture_kind[3])
      [] texture_kind[1] = "Cube" ->
             usize_mul(6, image_2d_size_bytes(format, texture_kind[2], texture_kind[3]))
      [] texture_kind[1] = "Volume" ->
             image_3d_size_bytes(format, texture_kind[2], texture_kind[3], texture_kind[4])

Max(a, b) == IF a >= b THEN a ELSE b

RECURSIVE Log2(_)
Log2(n) == IF n <= 1 THEN 0 ELSE 1 + Log2(n \div 2)

\* the mip levels a shape can address: level k halves level k-1 down to 1
max_mip_levels(texture_kind) ==
    CASE texture_kind[1] = "Line" -> 1 + Log2(texture_kind[2])
      [] texture_kind[1] \in {"Rectangle", "Cube"} ->
             1 + Log2(Max(texture_kind[2], texture_kind[3]))
      [] texture_kind[1] = "Volume" ->
             1 + Log2(Max(Max(texture_kind[2], texture_kind[3]), texture_kind[4]))

set_data_result(texture_kind, format, mip_count, data, backend_ok) ==
    IF data # None /\ data[1] # desired_byte_count(texture_kind, format)
    THEN "DataSizeMismatch"
    ELSE IF mip_count > max_mip_levels(texture_kind) THEN "InvalidMipCount"
    ELSE IF ~backend_ok THEN "BackendFailure"
    ELSE "Ok"

\* fn set_data(&mut self, kind, pixel_kind, mip_count, data) -> Result<(), FrameworkError>
\* backend_ok: whether the device accepts the allocation and the upload
set_data(texture_kind, format, mip_count, data, backend_ok) ==
    LET result == set_data_result(texture_kind, format, mip_count, data, backend_ok)
        stored == [tex EXCEPT !.provisioned = TRUE, !.kind = texture_kind,
                              !.pixel_kind = format]
    IN /\ set_data_ret' = [called |-> TRUE, kind |-> texture_kind, pixel_kind |-> format,
                           mip_count |-> mip_count, data |-> data,
                           backend_ok |-> backend_ok, result |-> result]
       /\ tex' = IF result = "Ok" THEN stored ELSE tex
       /\ UNCHANGED last_set

SetSampler ==
    \/ \E a \in Anisotropies : set_anisotropy(a)
    \/ \E f \in MinificationFilter : set_minification_filter(f)
    \/ \E f \in MagnificationFilter : set_magnification_filter(f)
    \/ \E c \in Coordinate, w \in WrapMode : set_wrap(c, w)
    \/ \E c \in Colors : set_border_color(c)

-----------------------------------------------------------------------------
(* impl dyn GpuTexture: the typed read-back helpers *)

\* bytes a backend may hand back
MaxBytes == 4

ByteValues == {0, 255}

ByteVecs == UNION {[1 .. n -> ByteValues] : n \in 0 .. MaxBytes}

\* layouts of some T: Pod
PodTypes ==
    {[name |-> "()", size |-> 0, align |-> 1],
     [name |-> "u8", size |-> 1, align |-> 1],
     [name |-> "[u8; 3]", size |-> 3, align |-> 1],
     [name |-> "u16", size |-> 2, align |-> 2],
     [name |-> "f32", size |-> 4, align |-> 4]}

NoTypedCall ==
    [helper |-> "none", T |-> [name |-> "u8", size |-> 1, align |-> 1],
     bytes |-> <<>>, capacity |-> 0, status |-> "Ok", typed |-> <<>>]

InitTypedIdle == typed_ret = NoTypedCall

\* the buffer of a Vec<u8> read as consecutive values of size bytes each
Reinterpret(bytes, size, len) ==
    [i \in 1 .. len |-> SubSeq(bytes, (i - 1) * size + 1, i * size)]

\* Vec::<T>::from_raw_parts(bytes.as_mut_ptr() as *mut T, len / size_of::<T>(),
\* capacity / size_of::<T>()) on the allocation of a Vec<u8>: the set of outcomes.
\* Dividing by size_of::<T>() = 0 panics.  from_raw_parts requires T to have the
\* alignment the buffer was allocated with (1) and size_of::<T>() * capacity to
\* be the allocated size; otherwise the behaviour is undefined.
from_raw_parts(bytes, capacity, T) ==
    IF T.size = 0 THEN {[status |-> "Panic", typed |-> <<>>]}
    ELSE LET typed == [status |-> "Ok",
                       typed |-> Reinterpret(bytes, T.size, Len(bytes) \div T.size)]
         IN IF T.align = 1 /\ (capacity \div T.size) * T.size = capacity
            THEN {typed}
            ELSE {typed, [status |-> "Undefined", typed |-> <<>>]}

\* pub fn get_image_of_type<T: Pod>(&self, level: usize) -> Vec<T>
\* bytes, capacity: the Vec<u8> that get_image(level) returns
get_image_of_type(T, level, bytes, capacity) ==
    \E out \in from_raw_parts(bytes, capacity, T) :
        typed_ret' = [helper |-> "get_image_of_type", T |-> T, bytes |-> bytes,
                      capacity |-> capacity, status |-> out.status, typed |-> out.typed]

\* pub fn read_pixels_of_type<T: Pod>(&self) -> Vec<T>
\* bytes, capacity: the Vec<u8> that read_pixels() returns
read_pixels_of_type(T, bytes, capacity) ==
    \E out \in from_raw_parts(bytes, capacity, T) :
        typed_ret' = [helper |-> "read_pixels_of_type", T |-> T, bytes |-> bytes,
                      capacity |-> capacity, status |-> out.status, typed |-> out.typed]

-----------------------------------------------------------------------------
(* trait ResourceIo: the default file_reader *)

\* file contents and lengths of reads
MaxFileLen == 2

MaxPolls == 2

FileBytes == UNION {[1 .. n -> ByteValues] : n \in 0 .. MaxFileLen}

Paths == {"a.png", "missing.png"}

FileLoadError == {"Io", "Custom"}

\* Result<Vec<u8>, FileLoadError>
Ok(bytes) == [ok |-> TRUE, err |-> "", bytes |-> bytes]

Err(e) == [ok |-> FALSE, err |-> e, bytes |-> <<>>]

LoadResults == {Ok(b) : b \in FileBytes} \cup {Err(e) : e \in FileLoadError}

NoReader == [open |-> FALSE, inner |-> <<>>, pos |-> 0]

NoFuture ==
    [pc |-> "idle", path |-> "", load_calls |-> 0, polls |-> 0,
     load_ret |-> Err(""), ret |-> Err("")]

InitIoIdle ==
    /\ fut = NoFuture
    /\ reader = NoReader
    /\ consumed = <<>>
    /\ seeked = FALSE

Cursor_at_end(bytes) == [open |-> TRUE, inner |-> bytes, pos |-> Len(bytes)]

\* Cursor::new(bytes)
Cursor_new(bytes) == [open |-> TRUE, inner |-> bytes, pos |-> 0]

\* file_reader(path): builds the future; an async block runs nothing until polled
file_reader(path) ==
    /\ fut.pc \in {"idle", "done"}
    /\ fut' = [NoFuture EXCEPT !.pc = "created", !.path = path]
    /\ reader' = NoReader
    /\ consumed' = <<>>
    /\ seeked' = FALSE

\* the future resumes with the value of self.load_file(path).await
file_reader_resume(f, r) ==
    IF r.ok
    THEN /\ fut' = [f EXCEPT !.pc = "done", !.load_ret = r, !.ret = Ok(<<>>)]
         /\ reader' = Cursor_new(r.bytes)
    ELSE /\ fut' = [f EXCEPT !.pc = "done", !.load_ret = r, !.ret = Err(r.err)]
         /\ reader' = NoReader

\* first poll: self.load_file(path) is called and its future polled
file_reader_poll_first ==
    /\ fut.pc = "created"
    /\ LET f == [fut EXCEPT !.load_calls = @ + 1, !.polls = 1] IN
         \/ /\ fut' = [f EXCEPT !.pc = "awaiting"]
            /\ UNCHANGED reader
         \/ \E r \in LoadResults : file_reader_resume(f, r)
    /\ UNCHANGED <<consumed, seeked>>

\* later polls: the pending load_file future is polled again
file_reader_poll_again ==
    /\ fut.pc = "awaiting"
    /\ LET f == [fut EXCEPT !.polls = @ + 1] IN
         \/ /\ fut.polls < MaxPolls
            /\ fut' = f
            /\ UNCHANGED reader
         \/ \E r \in LoadResults : file_reader_resume(f, r)
    /\ UNCHANGED <<consumed, seeked>>

Min(a, b) == IF a <= b THEN a ELSE b

\* Read::read on the returned reader with a buffer of n bytes
reader_read(n) ==
    /\ fut.pc = "done" /\ reader.open
    /\ LET start == Min(reader.pos, Len(reader.inner))
           k == Min(n, Len(reader.inner) - start)
       IN /\ consumed' = IF seeked THEN consumed
                          ELSE consumed \o SubSeq(reader.inner, start + 1, start + k)
          /\ reader' = [reader EXCEPT !.pos = @ + k]
    /\ UNCHANGED <<fut, seeked>>

\* Seek::seek(SeekFrom::Start(pos)) on the returned reader
reader_seek(pos) ==
    /\ fut.pc = "done" /\ reader.open
    /\ reader' = [reader EXCEPT !.pos = pos]
    /\ seeked' = TRUE
    /\ UNCHANGED <<fut, consumed>>

-----------------------------------------------------------------------------
(* Specifications of the texture object, the typed helpers and file_reader *)

InitTexture == InitCatalogIdle /\ InitTextureObject /\ InitTypedIdle /\ InitIoIdle

\* the sampler setters, on a texture that set_data may or may not have provisioned
NextSampler ==
    \/ SetSampler /\ UNCHANGED <<catalog_vars, typed_vars, io_vars>>
    \/ /\ \E data \in {None, Some(63), Some(64)} :
              set_data(Rectangle(4, 4), "RGBA8", 1, data, TRUE)
       /\ UNCHANGED <<catalog_vars, typed_vars, io_vars>>

SpecSampler == InitTexture /\ [][NextSampler]_vars

NextTexture ==
    /\ \E texture_kind \in TextureKinds, format \in TexturePixelKinds,
          mip_count \in 1 .. MaxMipCount,
          data \in {None} \cup {Some(n) : n \in DataLens},
          backend_ok \in BOOLEAN :
              set_data(texture_kind, format, mip_count, data, backend_ok)
    /\ UNCHANGED <<catalog_vars, typed_vars, io_vars>>

SpecTexture == InitTexture /\ [][NextTexture]_vars

InitTyped == InitCatalogIdle /\ InitTextureObject /\ InitTypedIdle /\ InitIoIdle

NextTyped ==
    \/ /\ \E T \in PodTypes, level \in 0 .. 1, bytes \in ByteVecs,
             capacity \in 0 .. MaxBytes + 1 :
              /\ capacity >= Len(bytes)
              /\ get_image_of_type(T, level, bytes, capacity)
       /\ UNCHANGED <<catalog_vars, texture_vars, io_vars>>
    \/ /\ \E T \in PodTypes, bytes \in ByteVecs, capacity \in 0 .. MaxBytes + 1 :
              /\ capacity >= Len(bytes)
              /\ read_pixels_of_type(T, bytes, capacity)
       /\ UNCHANGED <<catalog_vars, texture_vars, io_vars>>

SpecTyped == InitTyped /\ [][NextTyped]_vars

InitIo == InitCatalogIdle /\ InitTextureObject /\ InitTypedIdle /\ InitIoIdle

NextIo ==
    \/ /\ \E path \in Paths : file_reader(path)
       /\ UNCHANGED <<catalog_vars, texture_vars, typed_vars>>
    \/ file_reader_poll_first /\ UNCHANGED <<catalog_vars, texture_vars, typed_vars>>
    \/ file_reader_poll_again /\ UNCHANGED <<catalog_vars, texture_vars, typed_vars>>
    \/ /\ \E n \in 1 .. MaxFileLen : reader_read(n)
       /\ UNCHANGED <<catalog_vars, texture_vars, typed_vars>>
    \/ /\ \E pos \in 0 .. MaxFileLen + 1 : reader_seek(pos)
       /\ UNCHANGED <<catalog_vars, texture_vars, typed_vars>>

SpecIo == InitIo /\ [][NextIo]_vars

-----------------------------------------------------------------------------
(* Catalog: the classification functions applied to every PixelKind *)

InitKind ==
    /\ pixel_kind \in PixelKind
    /\ width = 0
    /\ height = 0
    /\ depth = 0
    /\ overflow_checks = FALSE
    /\ done = {}
    /\ alignment = None
    /\ compressed = FALSE
    /\ elem = "Float"
    /\ size_1d = 0
    /\ size_2d = 0
    /\ size_3d = 0
    /\ InitTextureObject
    /\ InitTypedIdle
    /\ InitIoIdle

CallUnpackAlignment ==
    /\ "unpack_alignment" \notin done
    /\ alignment' = unpack_alignment(pixel_kind)
    /\ done' = done \cup {"unpack_alignment"}
    /\ UNCHANGED <<pixel_kind, width, height, depth, overflow_checks,
                   compressed, elem, size_1d, size_2d, size_3d>>
    /\ UNCHANGED <<texture_vars, typed_vars, io_vars>>

CallIsCompressed ==
    /\ "is_compressed" \notin done
    /\ compressed' = is_compressed(pixel_kind)
    /\ done' = done \cup {"is_compressed"}
    /\ UNCHANGED <<pixel_kind, width, height, depth, overflow_checks,
                   alignment, elem, size_1d, size_2d, size_3d>>
    /\ UNCHANGED <<texture_vars, typed_vars, io_vars>>

CallElementKind ==
    /\ "element_kind" \notin done
    /\ elem' = element_kind(pixel_kind)
    /\ done' = done \cup {"element_kind"}
    /\ UNCHANGED <<pixel_kind, width, height, depth, overflow_checks,
                   alignment, compressed, size_1d, size_2d, size_3d>>
    /\ UNCHANGED <<texture_vars, typed_vars, io_vars>>

NextKind ==
    \/ CallUnpackAlignment
    \/ CallIsCompressed
    \/ CallElementKind

SpecKind == InitKind /\ [][NextKind]_vars

-----------------------------------------------------------------------------
(* Sizes: the size functions applied to every PixelKind and to Dims *)

Init ==
    /\ pixel_kind \in PixelKind
    /\ width \in Dims
    /\ height \in Dims
    /\ depth \in Dims
    /\ overflow_checks \in BOOLEAN
    /\ done = {}
    /\ alignment = None
    /\ compressed = FALSE
    /\ elem = "Float"
    /\ size_1d = 0
    /\ size_2d = 0
    /\ size_3d = 0
    /\ InitTextureObject
    /\ InitTypedIdle
    /\ InitIoIdle

CallImage1d ==
    /\ "image_1d_size_bytes" \notin done
    /\ size_1d' = image_1d_size_bytes(pixel_kind, width)
    /\ done' = done \cup {"image_1d_size_bytes"}
    /\ UNCHANGED <<pixel_kind, width, height, depth, overflow_checks,
                   alignment, compressed, elem, size_2d, size_3d>>
    /\ UNCHANGED <<texture_vars, typed_vars, io_vars>>

CallImage2d ==
    /\ "image_2d_size_bytes" \notin done
    /\ size_2d' = image_2d_size_bytes(pixel_kind, width, height)
    /\ done' = done \cup {"image_2d_size_bytes"}
    /\ UNCHANGED <<pixel_kind, width, height, depth, overflow_checks,
                   alignment, compressed, elem, size_1d, size_3d>>
    /\ UNCHANGED <<texture_vars, typed_vars, io_vars>>

CallImage3d ==
    /\ "image_3d_size_bytes" \notin done
    /\ size_3d' = image_3d_size_bytes(pixel_kind, width, height, depth)
    /\ done' = done \cup {"image_3d_size_bytes"}
    /\ UNCHANGED <<pixel_kind, width, height, depth, overflow_checks,
                   alignment, compressed, elem, size_1d, size_2d>>
    /\ UNCHANGED <<texture_vars, typed_vars, io_vars>>

Next ==
    \/ CallImage1d
    \/ CallImage2d
    \/ CallImage3d

Spec == Init /\ [][Next]_vars

-----------------------------------------------------------------------------
(* Rows: unpack_alignment and image_1d_size_bytes applied to the same format;
   width is the length of a row, height the index of a row of the image *)

InitAlign ==
    /\ pixel_kind \in PixelKind
    /\ width \in Dims
    /\ height \in 0 .. MaxDim
    /\ depth = 0
    /\ overflow_checks \in BOOLEAN
    /\ done = {}
    /\ alignment = None
    /\ compressed = FALSE
    /\ elem = "Float"
    /\ size_1d = 0
    /\ size_2d = 0
    /\ size_3d = 0
    /\ InitTextureObject
    /\ InitTypedIdle
    /\ InitIoIdle

NextAlign ==
    \/ CallUnpackAlignment
    \/ CallImage1d

SpecAlign == InitAlign /\ [][NextAlign]_vars

-----------------------------------------------------------------------------
(* Properties of the catalog *)

Compressed == {"DXT1RGB", "DXT1RGBA", "DXT3RGBA", "DXT5RGBA", "R8RGTC", "RG8RGTC"}

\* ceil(x / 4) over the integers
Blocks(x) == (x + 3) \div 4

BlockBytes(kind) == IF kind \in {"DXT1RGB", "DXT1RGBA", "R8RGTC"} THEN 8 ELSE 16

BytesPerPixel(kind) ==
    CASE kind = "RGBA32F" -> 16
      [] kind = "RGB32F" -> 12
      [] kind \in {"RGBA16", "RGBA16F"} -> 8
      [] kind \in {"RGB16", "RGB16F"} -> 6
      [] kind \in {"RGBA8", "SRGBA8", "BGRA8", "RG16", "LA16", "D24S8", "D32F",
                   "R32F", "R32UI", "R11G11B10F", "RGB10A2"} -> 4
      [] kind \in {"RGB8", "SRGB8", "BGR8"} -> 3
      [] kind \in {"RG8", "LA8", "R16", "L16", "D16", "R16F"} -> 2
      [] kind \in {"R8", "L8", "R8UI"} -> 1

Called(f) == f \in done

\* no step of the compressed computation leaves usize
BlocksFit1d == /\ width + 3 <= usize_MAX
               /\ Blocks(width) * BlockBytes(pixel_kind) <= usize_MAX

BlocksFit2d == /\ width + 3 <= usize_MAX
               /\ height + 3 <= usize_MAX
               /\ width * height <= usize_MAX
               /\ Blocks(width) * Blocks(height) * BlockBytes(pixel_kind) <= usize_MAX

BlocksFit3d == /\ width + 3 <= usize_MAX
               /\ height + 3 <= usize_MAX
               /\ depth + 3 <= usize_MAX
               /\ width * height <= usize_MAX
               /\ width * height * depth <= usize_MAX
               /\ Blocks(width) * Blocks(height) * Blocks(depth)
                      * BlockBytes(pixel_kind) <= usize_MAX

\* C1 as stated: for every compressed PixelKind and ALL dimensions the size
\* functions return the product of the per-axis block counts ceil(x/4) and
\* the block size (8 or 16).
C1_AllDimensions ==
    pixel_kind \in Compressed =>
        /\ Called("image_1d_size_bytes") =>
               size_1d = Blocks(width) * BlockBytes(pixel_kind)
        /\ Called("image_2d_size_bytes") =>
               size_2d = Blocks(width) * Blocks(height) * BlockBytes(pixel_kind)
        /\ Called("image_3d_size_bytes") =>
               size_3d = Blocks(width) * Blocks(height) * Blocks(depth)
                            * BlockBytes(pixel_kind)

\* C1 amended: for every compressed PixelKind and all dimensions for which no
\* step of the computation overflows usize (dimension + 3, the pixel count
\* width*height[*depth] the 2D and 3D entry points compute first, the byte
\* total), the size functions return the product of the per-axis block counts
\* ceil(x/4) and the block size; a zero dimension gives 0 bytes, a 4x4 image is
\* one block, and image_2d_size_bytes(DXT1RGBA, 10, 10) = 72.
C1_WithinUsize ==
    pixel_kind \in Compressed =>
        /\ Called("image_1d_size_bytes") /\ BlocksFit1d =>
               /\ size_1d = Blocks(width) * BlockBytes(pixel_kind)
               /\ width = 0 => size_1d = 0
        /\ Called("image_2d_size_bytes") /\ BlocksFit2d =>
               /\ size_2d = Blocks(width) * Blocks(height) * BlockBytes(pixel_kind)
               /\ width = 0 \/ height = 0 => size_2d = 0
               /\ width = 4 /\ height = 4 => size_2d = BlockBytes(pixel_kind)
               /\ pixel_kind = "DXT1RGBA" /\ width = 10 /\ height = 10 => size_2d = 72
        /\ Called("image_3d_size_bytes") /\ BlocksFit3d =>
               /\ size_3d = Blocks(width) * Blocks(height) * Blocks(depth)
                                * BlockBytes(pixel_kind)
               /\ width = 0 \/ height = 0 \/ depth = 0 => size_3d = 0

C1_Witness ==
    /\ pixel_kind = "DXT1RGBA" /\ width = 10 /\ height = 10 /\ depth = 0
    /\ done = {"image_1d_size_bytes", "image_2d_size_bytes", "image_3d_size_bytes"}
    /\ size_1d = 24 /\ size_2d = 72 /\ size_3d = 0

\* C2: for every uncompressed PixelKind and all dimensions whose product
\* bytes_per_pixel * width * height * depth is computed without overflow, the
\* size functions return that product (height, depth = 1 where the entry
\* point has no such argument); image_3d_size_bytes(RGBA32F, 2, 2, 2) = 128.
C2_UncompressedSizes ==
    pixel_kind \notin Compressed =>
        /\ Called("image_1d_size_bytes")
              /\ BytesPerPixel(pixel_kind) * width <= usize_MAX =>
               size_1d = BytesPerPixel(pixel_kind) * width
        /\ Called("image_2d_size_bytes")
              /\ BytesPerPixel(pixel_kind) * width * height <= usize_MAX =>
               size_2d = BytesPerPixel(pixel_kind) * width * height
        /\ Called("image_3d_size_bytes")
              /\ width * height <= usize_MAX
              /\ BytesPerPixel(pixel_kind) * width * height * depth <= usize_MAX =>
               /\ size_3d = BytesPerPixel(pixel_kind) * width * height * depth
               /\ pixel_kind = "RGBA32F" /\ width = 2 /\ height = 2 /\ depth = 2 =>
                      size_3d = 128

C2_Witness ==
    /\ pixel_kind = "RGBA32F" /\ width = 2 /\ height = 2 /\ depth = 2
    /\ Called("image_3d_size_bytes")
    /\ size_3d = 128

\* C3: unpack_alignment() is Some(1), Some(2), Some(4) or None; is_compressed()
\* is true iff unpack_alignment() is None, and true exactly for the six
\* block-compressed formats.
C3_AlignmentAndCompression ==
    /\ Called("unpack_alignment") =>
           alignment \in {Some(1), Some(2), Some(4), None}
    /\ Called("is_compressed") => (compressed <=> pixel_kind \in Compressed)
    /\ Called("unpack_alignment") /\ Called("is_compressed") =>
           (compressed <=> alignment = None)

C3_Witness ==
    /\ pixel_kind = "R8RGTC"
    /\ Called("unpack_alignment") /\ Called("is_compressed")
    /\ compressed /\ alignment = None

\* C4: image_3d_size_bytes(fmt, w, h, 1) = image_2d_size_bytes(fmt, w, h) for
\* all formats and all w, h (the same value, or both calls panic).
C4_Depth1Is2d ==
    /\ depth = 1
    /\ Called("image_3d_size_bytes") /\ Called("image_2d_size_bytes")
    => size_3d = size_2d

C4_Witness ==
    /\ depth = 1 /\ pixel_kind = "LA16" /\ width = 10 /\ height = 3
    /\ Called("image_3d_size_bytes") /\ Called("image_2d_size_bytes")
    /\ size_3d = 120

\* C5: image_2d_size_bytes(fmt, w, 1) = image_1d_size_bytes(fmt, w) for all
\* uncompressed formats and all w (the same value, or both calls panic).
C5_Height1Is1d ==
    /\ height = 1 /\ pixel_kind \notin Compressed
    /\ Called("image_2d_size_bytes") /\ Called("image_1d_size_bytes")
    => size_2d = size_1d

C5_Witness ==
    /\ height = 1 /\ pixel_kind = "RGB8" /\ width = 5
    /\ Called("image_2d_size_bytes") /\ Called("image_1d_size_bytes")
    /\ size_2d = 15

\* C6: element_kind() is Float exactly for R32F, R16F, RGB32F, RGBA32F, RGB16F,
\* RGBA16F, D32F, R11G11B10F; UnsignedInteger exactly for R8UI, R32UI;
\* NormalizedUnsignedInteger for every other format; never Integer.
C6_ElementKind ==
    Called("element_kind") =>
        /\ elem = "Float" <=>
               pixel_kind \in {"R32F", "R16F", "RGB32F", "RGBA32F", "RGB16F",
                               "RGBA16F", "D32F", "R11G11B10F"}
        /\ elem = "UnsignedInteger" <=> pixel_kind \in {"R8UI", "R32UI"}
        /\ elem \in {"Float", "UnsignedInteger", "NormalizedUnsignedInteger"}
        /\ elem # "Integer"

C6_Witness ==
    /\ pixel_kind = "R11G11B10F"
    /\ Called("element_kind")
    /\ elem = "Float"

-----------------------------------------------------------------------------
(* Properties of the texture object *)

\* the getter the claim pairs with each sampler setter
CorrespondingGetter ==
    [set_anisotropy |-> "anisotropy",
     set_minification_filter |-> "minification_filter",
     set_magnification_filter |-> "magnification_filter",
     set_wrap_S |-> "s_wrap_mode",
     set_wrap_T |-> "t_wrap_mode",
     set_wrap_R |-> "r_wrap_mode",
     set_border_color |-> "border_color"]

ReadsBack(setter) ==
    last_set[setter] # None =>
        /\ CorrespondingGetter[setter] \in DOMAIN Getters
        /\ Getters[CorrespondingGetter[setter]] = last_set[setter][1]

\* C7 as stated: after any sequence of calls, each of the seven sampler
\* setters (set_wrap(R, m) and set_border_color included) has a getter that
\* returns the value passed to the most recent call of the setter.
C7_EverySetterReadsBack == \A setter \in Setters : ReadsBack(setter)

\* C7 amended: after any sequence of calls, whether or not set_data has been
\* called, minification_filter, magnification_filter, anisotropy, s_wrap_mode
\* and t_wrap_mode return the value passed to the most recent call of
\* set_minification_filter, set_magnification_filter, set_anisotropy,
\* set_wrap(S, m) and set_wrap(T, m); the trait declares no getter for
\* set_wrap(R, m) or set_border_color.
C7_DeclaredGettersReadBack ==
    /\ \A setter \in Setters \ {"set_wrap_R", "set_border_color"} : ReadsBack(setter)
    /\ CorrespondingGetter["set_wrap_R"] \notin DOMAIN Getters
    /\ CorrespondingGetter["set_border_color"] \notin DOMAIN Getters

C7_Witness ==
    /\ ~tex.provisioned
    /\ last_set["set_minification_filter"] = Some("Nearest")
    /\ last_set["set_magnification_filter"] = Some("Nearest")
    /\ last_set["set_anisotropy"] = Some(16)
    /\ last_set["set_wrap_S"] = Some("ClampToEdge")
    /\ last_set["set_wrap_T"] = Some("MirroredRepeat")
    /\ last_set["set_wrap_R"] = Some("ClampToBorder")
    /\ last_set["set_border_color"] = Some("WHITE")
    /\ s_wrap_mode = "ClampToEdge" /\ t_wrap_mode = "MirroredRepeat"

\* bytes of one image of w x h x d texels
ImageBytes(format, w, h, d) ==
    IF format \in Compressed
    THEN Blocks(w) * Blocks(h) * Blocks(d) * BlockBytes(format)
    ELSE BytesPerPixel(format) * w * h * d

\* bytes of mip level 0 of a texture
Mip0Bytes(texture_kind, format) ==
    CASE texture_kind[1] = "Line" -> ImageBytes(format, texture_kind[2], 1, 1)
      [] texture_kind[1] = "Rectangle" ->
             ImageBytes(format, texture_kind[2], texture_kind[3], 1)
      [] texture_kind[1] = "Cube" ->
             6 * ImageBytes(format, texture_kind[2], texture_kind[3], 1)
      [] texture_kind[1] = "Volume" ->
             ImageBytes(format, texture_kind[2], texture_kind[3], texture_kind[4])

\* level mip_count - 1 still has a texel along the longest axis
MipCountValid(texture_kind, mip_count) ==
    \E i \in 2 .. Len(texture_kind) : 2 ^ (mip_count - 1) <= texture_kind[i]

-----------------------------------------------------------------------------
(* Properties of the typed helpers *)

RECURSIVE Flatten(_)
Flatten(seqs) == IF seqs = <<>> THEN <<>> ELSE Head(seqs) \o Flatten(Tail(seqs))

\* C9: get_image_of_type<T> and read_pixels_of_type<T> never fail and return
\* exactly floor(n / size_of(T)) elements, the first floor(n / size_of(T)) *
\* size_of(T) bytes of the buffer in order; trailing bytes are dropped.
C9_TypedHelpersTruncate ==
    typed_ret.helper # "none" =>
        /\ typed_ret.status = "Ok"
        /\ LET n == Len(typed_ret.bytes)
               size == typed_ret.T.size
           IN /\ Len(typed_ret.typed) = n \div size
              /\ Flatten(typed_ret.typed) = SubSeq(typed_ret.bytes, 1, (n \div size) * size)

-----------------------------------------------------------------------------
(* Properties of the default file_reader *)

\* C10: the default file_reader calls load_file exactly once; an error of
\* load_file is returned as it is, with no reader; on success the result is a
\* reader at offset 0 whose content is exactly the loaded bytes.
C10_FileReaderWrapsLoadFile ==
    /\ fut.pc = "created" => fut.load_calls = 0
    /\ fut.pc = "awaiting" => fut.load_calls = 1
    /\ fut.pc = "done" =>
           /\ fut.load_calls = 1
           /\ ~fut.load_ret.ok => fut.ret = fut.load_ret /\ ~reader.open
           /\ fut.load_ret.ok =>
                  /\ fut.ret.ok
                  /\ reader.open
                  /\ reader.inner = fut.load_ret.bytes
                  /\ ~seeked => /\ reader.pos = Len(consumed)
                                /\ consumed = SubSeq(fut.load_ret.bytes, 1, Len(consumed))

C10_Witness ==
    /\ fut.pc = "done"
    /\ fut.polls = 2
    /\ fut.load_ret = Ok(<<255, 0>>)
    /\ ~seeked
    /\ consumed = <<255, 0>>

-----------------------------------------------------------------------------
(* Properties of the rows of a tightly packed image *)

\* both functions have been applied to pixel_kind, which is uncompressed, and
\* the byte length of the row fits usize
RowMeasured ==
    /\ pixel_kind \notin Compressed
    /\ Called("unpack_alignment")
    /\ Called("image_1d_size_bytes")
    /\ BytesPerPixel(pixel_kind) * width <= usize_MAX

\* byte offset of row r in an image whose rows follow each other with no padding
RowOffset(r) == r * size_1d

\* C11: for every uncompressed PixelKind the unpack alignment divides the
\* bytes per pixel, image_1d_size_bytes(fmt, 1), and therefore every row of a
\* tightly packed image of any width starts on an aligned byte offset.
C11_AlignmentDividesBytesPerPixel ==
    RowMeasured =>
        /\ alignment # None
        /\ width = 1 => size_1d % alignment[1] = 0
        /\ RowOffset(height) % alignment[1] = 0

====
